---- MODULE Spec2Model ----
(***************************************************************************)
(* Pet-adoption backend (FastAPI + SQLAlchemy on SQLite): the Domain Store *)
(* tables, the cookie session authenticator, the adoption-application      *)
(* workflow, the favorites and the accounts, one action per request        *)
(* handler (Spec, FavSpec, UserSpec, ListSpec), one action per database    *)
(* statement where requests overlap (RaceSpec), and the upload directory   *)
(* of the file service (FileSpec).                                         *)
(*                                                                         *)
(* Request bodies are taken to be schema-valid (field lengths etc.); the   *)
(* free-text fields of an Application (message, phone, living situation)   *)
(* are passed through by every handler and are not part of the state.      *)
(***************************************************************************)
EXTENDS Integers, Sequences, FiniteSets, TLC

VARIABLES users, pets, locations, applications, favorites, clock, resp, threads,
          issued, uploads

vars == <<users, pets, locations, applications, favorites, clock, resp, threads,
          issued, uploads>>

-----------------------------------------------------------------------------
(* Bounds of the model *)

\* no more Application rows than this are ever stored
MaxApps == 4
\* datetime.utcnow() is read at most this many times
MaxClock == 9
\* ... and at most this many times where favorites are added
MaxFavClock == 10
\* account requests: User rows and Location rows
MaxUsers == 4
MaxLocations == 4
\* files in the upload directory
MaxFiles == 3
\* overlapping requests: Application rows, Favorite rows, clock readings
MaxRaceApps == 5
MaxRaceFavs == 6
MaxRaceClock == 11

-----------------------------------------------------------------------------
(* Values *)

\* SQL NULL / Python None / an absent cookie, for string-valued places
NULL == "NULL"
\* SQL NULL in a DateTime column (timestamps proper are >= 1)
NullTime == 0

\* the cookie values a request may carry: none, or the email of a seeded
\* account (which matches no user once that account is deleted)
ADMIN_EMAIL == "test@t.ca"
REGULAR_EMAIL == "ebasotest@gmail.com"
JOHN_EMAIL == "john@t.ca"
Cookies == {NULL, ADMIN_EMAIL, REGULAR_EMAIL, JOHN_EMAIL}

\* the seeded pets Max..Oliver
SeedPets == 1..8
\* pet ids used in requests: Max, Luna, and an id that no seeded pet has
PetIdInputs == {1, 2, 9}

Statuses == {"pending", "approved", "rejected"}

Max(S) == CHOOSE x \in S : \A y \in S : y <= x

\* INTEGER PRIMARY KEY on SQLite: the next rowid is the largest one plus one
NextId(ids) == IF ids = {} THEN 1 ELSE Max(ids) + 1

-----------------------------------------------------------------------------
(* Session Authenticator *)

UsersByEmail(email) == {u \in users : u.email = email}

\* get_current_user raises 401 for a missing/empty cookie or an unknown email
Authenticated(cookie) ==
    /\ cookie # NULL
    /\ cookie # ""
    /\ UsersByEmail(cookie) # {}

\* get_current_user's .first(): the matching row (lowest rowid)
CurrentUser(cookie) ==
    CHOOSE u \in UsersByEmail(cookie) :
        \A v \in UsersByEmail(cookie) : u.user_id <= v.user_id

\* bcrypt.hashpw: the hash is not the password and verifies against it alone
\* (the random salt is left out)
hash_password(password) == [bcrypt |-> password]

verify_password(plain_password, hashed_password) ==
    hashed_password = hash_password(plain_password)

\* Faulty variant: the admin test is missing
IsAdminAnyone(user) == TRUE

\* the "if not user.is_admin" test of update_application and get_application_stats
IsAdmin(user) == user.is_admin

-----------------------------------------------------------------------------
(* Responses *)

\* what the last request answered: the handler, the status code, the payload
Response(op, code, body) == [op |-> op, code |-> code, body |-> body]

\* no request is being answered: the server is idle
NoResponse == Response("none", 0, <<>>)
Idle == resp = NoResponse

\* an HTTPException raised before any write: nothing is committed
Raise(op, code) ==
    /\ resp' = Response(op, code, <<>>)
    /\ UNCHANGED <<users, pets, locations, applications, favorites, clock>>

-----------------------------------------------------------------------------
(* Worker threads: FastAPI runs the (synchronous) handlers in a thread pool,  *)
(* each request with a Session of its own (get_db).  The actions named after  *)
(* a whole handler further down serve one request at a time, with no thread   *)
(* in flight; the per-statement actions of the overlapping requests follow    *)
(* them.                                                                      *)

Workers == {1, 2}

NoUser ==
    [user_id |-> 0, email |-> NULL, is_admin |-> FALSE,
     display_name |-> NULL, password_hash |-> hash_password(NULL)]

\* what a worker thread is doing: the handler, the statement it is at, the
\* user loaded by get_current_user, the pet_id of the path, and its answer
Thread(op, pc, user, pet_id, code, body) ==
    [op |-> op, pc |-> pc, user |-> user, pet_id |-> pet_id,
     code |-> code, body |-> body]

IdleThread == Thread("none", "idle", NoUser, 0, 0, <<>>)

-----------------------------------------------------------------------------
Init ==
    /\ threads = [w \in Workers |-> IdleThread]
    /\ issued = {}
    /\ uploads = {}
    /\ users = {}
    /\ pets = {}
    /\ locations = {}
    /\ applications = {}
    /\ favorites = {}
    /\ clock = 0
    /\ resp = NoResponse

-----------------------------------------------------------------------------
(* seed.py *)

SeedUsers ==
    { [user_id |-> 1, email |-> ADMIN_EMAIL, is_admin |-> TRUE,
       display_name |-> "Admin User", password_hash |-> hash_password("123456Pw")],
      [user_id |-> 2, email |-> REGULAR_EMAIL, is_admin |-> FALSE,
       display_name |-> "Regular User", password_hash |-> hash_password("123456Pw")],
      [user_id |-> 3, email |-> JOHN_EMAIL, is_admin |-> FALSE,
       display_name |-> "John Smith", password_hash |-> hash_password("123456Pw")] }

SeedLocations == 1..3

\* the three sample applications; status is given explicitly, reviewed_at is
\* never given and so stays NULL, also on the approved one
SeedApplications(base, now) ==
    { [application_id |-> base + 1, user_id |-> 2, pet_id |-> 1,
       status |-> "pending", admin_notes |-> NULL,
       application_date |-> now + 1, reviewed_at |-> NullTime],
      [application_id |-> base + 2, user_id |-> 3, pet_id |-> 3,
       status |-> "pending", admin_notes |-> NULL,
       application_date |-> now + 2, reviewed_at |-> NullTime],
      [application_id |-> base + 3, user_id |-> 2, pet_id |-> 2,
       status |-> "approved", admin_notes |-> "Great match!",
       application_date |-> now + 3, reviewed_at |-> NullTime] }

SeedFavorites(base, now) ==
    { [favorite_id |-> base + 1, user_id |-> 2, pet_id |-> 1, created_at |-> now + 4],
      [favorite_id |-> base + 2, user_id |-> 2, pet_id |-> 2, created_at |-> now + 5],
      [favorite_id |-> base + 3, user_id |-> 2, pet_id |-> 5, created_at |-> now + 6],
      [favorite_id |-> base + 4, user_id |-> 3, pet_id |-> 3, created_at |-> now + 7] }

AppIds == {a.application_id : a \in applications}
FavIds == {f.favorite_id : f \in favorites}

\* seed_database: only when users, locations and pets are all empty
SeedDatabase ==
    /\ Idle
    /\ UNCHANGED <<threads, issued, uploads>>
    /\ users = {} /\ locations = {} /\ pets = {}
    /\ clock + 7 <= MaxClock
    /\ Cardinality(applications) + 3 <= MaxApps
    /\ users' = SeedUsers
    /\ locations' = SeedLocations
    /\ pets' = SeedPets
    /\ applications' = applications \cup SeedApplications(NextId(AppIds) - 1, clock)
    /\ favorites' = favorites \cup SeedFavorites(NextId(FavIds) - 1, clock)
    /\ clock' = clock + 7
    /\ UNCHANGED resp

-----------------------------------------------------------------------------
(* POST /applications *)

\* Faulty variant: the schema also declares status, so a client-supplied one is kept
ApplicationCreateKeepsStatus(body) ==
    IF body.status = NULL
    THEN [pet_id |-> body.pet_id]
    ELSE [pet_id |-> body.pet_id, status |-> body.status]

\* ApplicationCreate: pydantic keeps the declared fields and drops every other
\* key of the JSON body (here: a client-supplied status or user_id)
ApplicationCreate(body) == [pet_id |-> body.pet_id]

\* Faulty variant: the pet lookup is skipped
PetFoundAlways(pet_id) == TRUE

\* db.query(Pet).filter(Pet.pet_id == data.pet_id).first() is not None
PetFound(pet_id) == pet_id \in pets

\* Faulty variant: the lookup compares the status with the wrong literal
ExistingPendingWrongStatus(user_id, pet_id) ==
    {a \in applications :
        a.user_id = user_id /\ a.pet_id = pet_id /\ a.status = "approved"}

\* Faulty variant: the lookup leaves out the status filter
ExistingPendingAnyStatus(user_id, pet_id) ==
    {a \in applications : a.user_id = user_id /\ a.pet_id = pet_id}

\* the pending-duplicate lookup of create_application
ExistingPending(user_id, pet_id) ==
    {a \in applications :
        a.user_id = user_id /\ a.pet_id = pet_id /\ a.status = "pending"}

ApplicationColumns ==
    {"application_id", "user_id", "pet_id", "status", "admin_notes",
     "application_date", "reviewed_at"}

\* Application(user_id=user.user_id, **data.model_dump()): the keyword
\* arguments set their columns, every other column takes its default at INSERT
NewApplication(user, data, id, now) ==
    LET defaults == [application_id |-> id, status |-> "pending",
                     admin_notes |-> NULL, application_date |-> now,
                     reviewed_at |-> NullTime]
    IN  [col \in ApplicationColumns |->
            IF col = "user_id" THEN user.user_id
            ELSE IF col \in DOMAIN data THEN data[col]
            ELSE defaults[col]]

\* JSON bodies of POST /applications.  For Max and for the missing pet the
\* body has the declared keys only (NULL / 0: the key is absent); the body
\* for Luna also carries the undeclared keys "status" and "user_id"
CreateBodies ==
    {[pet_id |-> p, status |-> NULL, user_id |-> 0] : p \in PetIdInputs \ {2}}
        \cup {[pet_id |-> 2, status |-> "approved", user_id |-> 3]}

CreateApplication(cookie, body) ==
    /\ Idle
    /\ UNCHANGED <<threads, issued, uploads>>
    /\ IF ~Authenticated(cookie)
       THEN Raise("create_application", 401)
       ELSE LET user == CurrentUser(cookie)
                data == ApplicationCreate(body)
            IN  IF ~PetFound(data.pet_id)
                THEN Raise("create_application", 404)
                ELSE IF ExistingPending(user.user_id, data.pet_id) # {}
                THEN Raise("create_application", 400)
                ELSE /\ Cardinality(applications) < MaxApps
                     /\ clock < MaxClock
                     /\ LET application ==
                              NewApplication(user, data, NextId(AppIds), clock + 1)
                        IN  /\ applications' = applications \cup {application}
                            /\ resp' = Response("create_application", 200, <<application>>)
                     /\ clock' = clock + 1
                     /\ UNCHANGED <<users, pets, locations, favorites>>

-----------------------------------------------------------------------------
(* the Application-User-Pet join of list_applications and get_application *)

\* an inner join keeps an Application only if its User row and its Pet row exist
Joined ==
    {a \in applications :
        /\ \E u \in users : u.user_id = a.user_id
        /\ a.pet_id \in pets}

\* Faulty variant: ascending order
FirstByDateAsc(S) ==
    CHOOSE a \in S : \A b \in S : a.application_date <= b.application_date

\* the first row of S under ORDER BY application_date DESC
FirstByDateDesc(S) ==
    CHOOSE a \in S : \A b \in S : b.application_date <= a.application_date

RECURSIVE OrderByDateDesc(_)
\* ORDER BY application_date DESC
OrderByDateDesc(S) ==
    IF S = {} THEN <<>>
    ELSE LET newest == FirstByDateDesc(S)
         IN  <<newest>> \o OrderByDateDesc(S \ {newest})

-----------------------------------------------------------------------------
(* GET /applications *)

StatusFilters == {NULL, "", "pending", "approved", "rejected", "bogus"}

\* the query of list_applications with its two optional filters
ListQuery(user, status) ==
    {a \in Joined :
        /\ (~user.is_admin => a.user_id = user.user_id)
        /\ ((status # NULL /\ status # "") => a.status = status)}

ListApplications(cookie, status) ==
    /\ Idle
    /\ UNCHANGED <<threads, issued, uploads>>
    /\ IF ~Authenticated(cookie)
       THEN resp' = Response("list_applications", 401, <<>>)
       ELSE resp' = Response("list_applications", 200,
                             OrderByDateDesc(ListQuery(CurrentUser(cookie), status)))
    /\ UNCHANGED <<users, pets, locations, applications, favorites, clock>>

-----------------------------------------------------------------------------
(* GET /applications/stats *)

\* Faulty variant: the count is taken over the join with users and pets
CountByStatusJoined(status) == Cardinality({a \in Joined : a.status = status})

\* SELECT status, count(application_id) ... GROUP BY status
CountByStatus(status) == Cardinality({a \in applications : a.status = status})

\* the result dict: the three preset keys, overwritten per group, and the
\* total summed up over the groups
StatsResult ==
    [pending |-> CountByStatus("pending"),
     approved |-> CountByStatus("approved"),
     rejected |-> CountByStatus("rejected"),
     total |-> CountByStatus("pending") + CountByStatus("approved")
                  + CountByStatus("rejected")]

GetApplicationStats(cookie) ==
    /\ Idle
    /\ UNCHANGED <<threads, issued, uploads>>
    /\ IF ~Authenticated(cookie)
       THEN resp' = Response("get_application_stats", 401, <<>>)
       ELSE IF ~IsAdmin(CurrentUser(cookie))
       THEN resp' = Response("get_application_stats", 403, <<>>)
       ELSE resp' = Response("get_application_stats", 200, <<StatsResult>>)
    /\ UNCHANGED <<users, pets, locations, applications, favorites, clock>>

-----------------------------------------------------------------------------
(* GET /applications/{application_id} *)

\* ids used in requests: the seeded applications of the regular user (1 is
\* pending, 3 is approved), the ids a new row gets, and one id beyond
AppIdInputs == {1} \cup (3..(MaxApps + 1))

ById(S, application_id) == {a \in S : a.application_id = application_id}

\* the owner-or-admin rule of get_application and delete_application
MayAccess(user, app) == user.is_admin \/ app.user_id = user.user_id

GetApplication(cookie, application_id) ==
    /\ Idle
    /\ UNCHANGED <<threads, issued, uploads>>
    /\ IF ~Authenticated(cookie)
       THEN resp' = Response("get_application", 401, <<>>)
       ELSE LET result == ById(Joined, application_id) IN
            IF result = {}
            THEN resp' = Response("get_application", 404, <<>>)
            ELSE LET app == CHOOSE a \in result : TRUE IN
                 IF ~MayAccess(CurrentUser(cookie), app)
                 THEN resp' = Response("get_application", 403, <<>>)
                 ELSE resp' = Response("get_application", 200, <<app>>)
    /\ UNCHANGED <<users, pets, locations, applications, favorites, clock>>

-----------------------------------------------------------------------------
(* PATCH /applications/{application_id} *)

\* ApplicationUpdate: status is None or matches ^(pending|approved|rejected)$,
\* admin_notes is None or a string
\* the note text used in requests is the one the seed script also uses
UpdateBodies == [status : {NULL} \cup Statuses, admin_notes : {NULL, "Great match!"}]

\* ids PATCHed in requests: the seeded applications of the regular user (1 is
\* pending, 3 is approved) and an id no row has
PatchIdInputs == {1, 3, MaxApps + 1}

\* Faulty variant: a PATCH without status falls back to "pending"
ApplyUpdateDefaultStatus(app, data, now) ==
    LET a1 == IF data.status # NULL
              THEN [app EXCEPT !.status = data.status, !.reviewed_at = now]
              ELSE [app EXCEPT !.status = "pending"]
    IN  IF data.admin_notes # NULL
        THEN [a1 EXCEPT !.admin_notes = data.admin_notes]
        ELSE a1

\* Faulty variant: the review timestamp is not written
ApplyUpdateNoReviewedAt(app, data, now) ==
    LET a1 == IF data.status # NULL
              THEN [app EXCEPT !.status = data.status]
              ELSE app
    IN  IF data.admin_notes # NULL
        THEN [a1 EXCEPT !.admin_notes = data.admin_notes]
        ELSE a1

\* Faulty variant: the notes are written only together with a status
ApplyUpdateNotesWithStatus(app, data, now) ==
    IF data.status # NULL
    THEN [app EXCEPT !.status = data.status, !.reviewed_at = now,
                     !.admin_notes = IF data.admin_notes # NULL
                                     THEN data.admin_notes ELSE @]
    ELSE app

\* the "Update fields" block of update_application
ApplyUpdate(app, data, now) ==
    LET a1 == IF data.status # NULL
              THEN [app EXCEPT !.status = data.status, !.reviewed_at = now]
              ELSE app
    IN  IF data.admin_notes # NULL
        THEN [a1 EXCEPT !.admin_notes = data.admin_notes]
        ELSE a1

UpdateApplication(cookie, application_id, data) ==
    /\ Idle
    /\ UNCHANGED <<threads, issued, uploads>>
    /\ IF ~Authenticated(cookie)
       THEN Raise("update_application", 401)
       ELSE IF ~IsAdmin(CurrentUser(cookie))
       THEN Raise("update_application", 403)
       ELSE IF ById(applications, application_id) = {}
       THEN Raise("update_application", 404)
       ELSE LET app == CHOOSE a \in ById(applications, application_id) : TRUE
                updated == ApplyUpdate(app, data, clock + 1)
            IN  /\ data.status # NULL => clock < MaxClock
                /\ applications' = (applications \ {app}) \cup {updated}
                /\ clock' = IF data.status # NULL THEN clock + 1 ELSE clock
                /\ resp' = Response("update_application", 200, <<updated>>)
                /\ UNCHANGED <<users, pets, locations, favorites>>

-----------------------------------------------------------------------------
(* DELETE /applications/{application_id} *)

\* Faulty variant: the owner's favorite of the same pet is removed as well
DeleteApplicationAndFavorite(cookie, application_id) ==
    /\ Idle
    /\ UNCHANGED <<threads, issued, uploads>>
    /\ IF ~Authenticated(cookie)
       THEN Raise("delete_application", 401)
       ELSE IF ById(applications, application_id) = {}
       THEN Raise("delete_application", 404)
       ELSE LET app == CHOOSE a \in ById(applications, application_id) : TRUE IN
            IF ~MayAccess(CurrentUser(cookie), app)
            THEN Raise("delete_application", 403)
            ELSE /\ applications' = applications \ {app}
                 /\ favorites' = {f \in favorites :
                                     ~(f.user_id = app.user_id /\ f.pet_id = app.pet_id)}
                 /\ resp' = Response("delete_application", 200, <<>>)
                 /\ UNCHANGED <<users, pets, locations, clock>>

\* db.delete(application): Application has no relationship that cascades
DeleteApplication(cookie, application_id) ==
    /\ Idle
    /\ UNCHANGED <<threads, issued, uploads>>
    /\ IF ~Authenticated(cookie)
       THEN Raise("delete_application", 401)
       ELSE IF ById(applications, application_id) = {}
       THEN Raise("delete_application", 404)
       ELSE LET app == CHOOSE a \in ById(applications, application_id) : TRUE IN
            IF ~MayAccess(CurrentUser(cookie), app)
            THEN Raise("delete_application", 403)
            ELSE /\ applications' = applications \ {app}
                 /\ resp' = Response("delete_application", 200, <<>>)
                 /\ UNCHANGED <<users, pets, locations, favorites, clock>>

-----------------------------------------------------------------------------
(* DELETE /users/{user_id} *)

\* the regular user, owner of the seeded applications 1 and 3
UserIdInputs == {2}

\* Faulty variant: the caller is not compared with the path id
MayManageAnyUser(current_user, user_id) == TRUE

\* self-or-admin rule of the /users/{user_id} handlers
MayManageUser(current_user, user_id) ==
    current_user.user_id = user_id \/ current_user.is_admin

\* db.delete(user): the relationships' cascade="all, delete-orphan" deletes the
\* user's applications and favorites with the user row
DeleteUser(cookie, user_id) ==
    /\ Idle
    /\ UNCHANGED <<threads, issued, uploads>>
    /\ IF ~Authenticated(cookie)
       THEN Raise("delete_user", 401)
       ELSE IF ~MayManageUser(CurrentUser(cookie), user_id)
       THEN Raise("delete_user", 403)
       ELSE IF {u \in users : u.user_id = user_id} = {}
       THEN Raise("delete_user", 404)
       ELSE /\ users' = {u \in users : u.user_id # user_id}
            /\ applications' = {a \in applications : a.user_id # user_id}
            /\ favorites' = {f \in favorites : f.user_id # user_id}
            /\ resp' = Response("delete_user", 200, <<>>)
            /\ UNCHANGED <<pets, locations, clock>>

-----------------------------------------------------------------------------
(* POST /_test/reset *)

AdminKeys == {NULL, "letmein"}

\* Query.delete() is a bulk DELETE FROM pets / locations: no ORM cascade runs
\* and SQLite enforces no foreign key, so applications and favorites stay
ResetDb(x_admin_key) ==
    /\ Idle
    /\ UNCHANGED <<threads, issued, uploads>>
    /\ IF x_admin_key # "letmein"
       THEN Raise("reset_db", 403)
       ELSE /\ pets' = {}
            /\ locations' = {}
            /\ resp' = Response("reset_db", 200, <<>>)
            /\ UNCHANGED <<users, applications, favorites, clock>>

-----------------------------------------------------------------------------
(* /favorites *)

\* pet ids used in favorites requests: Max (a seeded favorite of the regular
\* user), Charlie (nobody's favorite after seeding), and an id no pet has
FavPetInputs == {1, 4, 9}

\* Faulty variant: the lookup leaves out the pet
FavoritesOfAnyPet(user_id, pet_id) == {f \in favorites : f.user_id = user_id}

\* Faulty variant: the lookup leaves out the user
FavoritesOfAnyUser(user_id, pet_id) == {f \in favorites : f.pet_id = pet_id}

\* the Favorite lookup by (user_id, pet_id) of add, remove and check
FavoritesOf(user_id, pet_id) ==
    {f \in favorites : f.user_id = user_id /\ f.pet_id = pet_id}

\* Favorite(user_id=..., pet_id=...): created_at takes its default at INSERT
NewFavorite(user, pet_id, id, now) ==
    [favorite_id |-> id, user_id |-> user.user_id, pet_id |-> pet_id,
     created_at |-> now]

\* Faulty variant: the already-favorited lookup is missing
AddFavoriteNoLookup(cookie, pet_id) ==
    /\ Idle
    /\ UNCHANGED <<threads, issued, uploads>>
    /\ IF ~Authenticated(cookie)
       THEN Raise("add_favorite", 401)
       ELSE IF ~PetFound(pet_id)
       THEN Raise("add_favorite", 404)
       ELSE /\ clock < MaxFavClock
            /\ favorites' = favorites \cup
                  {NewFavorite(CurrentUser(cookie), pet_id, NextId(FavIds), clock + 1)}
            /\ clock' = clock + 1
            /\ resp' = Response("add_favorite", 200, <<>>)
            /\ UNCHANGED <<users, pets, locations, applications>>

AddFavorite(cookie, pet_id) ==
    /\ Idle
    /\ UNCHANGED <<threads, issued, uploads>>
    /\ IF ~Authenticated(cookie)
       THEN Raise("add_favorite", 401)
       ELSE IF ~PetFound(pet_id)
       THEN Raise("add_favorite", 404)
       ELSE IF FavoritesOf(CurrentUser(cookie).user_id, pet_id) # {}
       THEN Raise("add_favorite", 400)
       ELSE /\ clock < MaxFavClock
            /\ favorites' = favorites \cup
                  {NewFavorite(CurrentUser(cookie), pet_id, NextId(FavIds), clock + 1)}
            /\ clock' = clock + 1
            /\ resp' = Response("add_favorite", 200, <<>>)
            /\ UNCHANGED <<users, pets, locations, applications>>

\* .first() of the lookup: the row of the lowest rowid
FirstFavorite(S) == CHOOSE f \in S : \A g \in S : f.favorite_id <= g.favorite_id

RemoveFavorite(cookie, pet_id) ==
    /\ Idle
    /\ UNCHANGED <<threads, issued, uploads>>
    /\ IF ~Authenticated(cookie)
       THEN Raise("remove_favorite", 401)
       ELSE LET found == FavoritesOf(CurrentUser(cookie).user_id, pet_id) IN
            IF found = {}
            THEN Raise("remove_favorite", 404)
            ELSE /\ favorites' = favorites \ {FirstFavorite(found)}
                 /\ resp' = Response("remove_favorite", 200, <<>>)
                 /\ UNCHANGED <<users, pets, locations, applications, clock>>

\* Faulty variant: a pet id that no pet has is answered 404
CheckFavoriteNeedsPet(cookie, pet_id) ==
    /\ Idle
    /\ UNCHANGED <<threads, issued, uploads>>
    /\ IF ~Authenticated(cookie)
       THEN resp' = Response("check_favorite", 401, <<>>)
       ELSE IF ~PetFound(pet_id)
       THEN resp' = Response("check_favorite", 404, <<>>)
       ELSE resp' = Response("check_favorite", 200,
                <<[is_favorited |->
                      FavoritesOf(CurrentUser(cookie).user_id, pet_id) # {}]>>)
    /\ UNCHANGED <<users, pets, locations, applications, favorites, clock>>

CheckFavorite(cookie, pet_id) ==
    /\ Idle
    /\ UNCHANGED <<threads, issued, uploads>>
    /\ IF ~Authenticated(cookie)
       THEN resp' = Response("check_favorite", 401, <<>>)
       ELSE resp' = Response("check_favorite", 200,
                <<[is_favorited |->
                      FavoritesOf(CurrentUser(cookie).user_id, pet_id) # {}]>>)
    /\ UNCHANGED <<users, pets, locations, applications, favorites, clock>>

RECURSIVE PetIdsNewestFirst(_)
\* the pet ids of Favorite rows, ORDER BY Favorite.created_at DESC
PetIdsNewestFirst(S) ==
    IF S = {} THEN <<>>
    ELSE LET newest == CHOOSE f \in S :
                           \A g \in S :
                              \/ g.created_at < f.created_at
                              \/ /\ g.created_at = f.created_at
                                 /\ g.favorite_id <= f.favorite_id
         IN  <<newest.pet_id>> \o PetIdsNewestFirst(S \ {newest})

RECURSIVE PetIdsByRowid(_)
\* the pet ids of Favorite rows in table order (no ORDER BY: a rowid scan)
PetIdsByRowid(S) ==
    IF S = {} THEN <<>>
    ELSE LET f == FirstFavorite(S)
         IN  <<f.pet_id>> \o PetIdsByRowid(S \ {f})

\* the Pet JOIN Favorite of list_favorites: one result row per Favorite of
\* the user whose pet exists
ListFavorites(cookie) ==
    /\ Idle
    /\ UNCHANGED <<threads, issued, uploads>>
    /\ IF ~Authenticated(cookie)
       THEN resp' = Response("list_favorites", 401, <<>>)
       ELSE resp' = Response("list_favorites", 200,
                PetIdsNewestFirst({f \in favorites :
                    /\ f.user_id = CurrentUser(cookie).user_id
                    /\ f.pet_id \in pets}))
    /\ UNCHANGED <<users, pets, locations, applications, favorites, clock>>

ListFavoriteIds(cookie) ==
    /\ Idle
    /\ UNCHANGED <<threads, issued, uploads>>
    /\ IF ~Authenticated(cookie)
       THEN resp' = Response("list_favorite_ids", 401, <<>>)
       ELSE resp' = Response("list_favorite_ids", 200,
                PetIdsByRowid({f \in favorites :
                    f.user_id = CurrentUser(cookie).user_id}))
    /\ UNCHANGED <<users, pets, locations, applications, favorites, clock>>

-----------------------------------------------------------------------------
(* /auth and /users *)

\* an email no seeded account has
NEW_EMAIL == "new@t.ca"

UserIds == {u.user_id : u \in users}

\* User(email=..., password_hash=..., display_name=..., is_admin=...)
NewUser(email, password, display_name, is_admin) ==
    [user_id |-> NextId(UserIds), email |-> email, is_admin |-> is_admin,
     display_name |-> display_name, password_hash |-> hash_password(password)]

\* response.set_cookie(SESSION_COOKIE, user.email): the session token is the
\* email; issued keeps each token handed out with the account it was handed to
SetCookie(user) ==
    issued' = issued \cup {[cookie |-> user.email, user_id |-> user.user_id]}

\* an HTTPException of a handler that may set the cookie: nothing is set
RaiseNoCookie(op, code) == Raise(op, code) /\ UNCHANGED issued

LoginRequests == [email : {REGULAR_EMAIL}, password : {"123456Pw", "guess"}]

Login(data) ==
    /\ Idle
    /\ UNCHANGED <<threads, uploads>>
    /\ IF \/ UsersByEmail(data.email) = {}
          \/ ~verify_password(data.password, CurrentUser(data.email).password_hash)
       THEN RaiseNoCookie("login", 401)
       ELSE /\ SetCookie(CurrentUser(data.email))
            /\ resp' = Response("login", 200, <<CurrentUser(data.email)>>)
            /\ UNCHANGED <<users, pets, locations, applications, favorites, clock>>

RegisterRequests ==
    [email : {REGULAR_EMAIL, NEW_EMAIL}, password : {"guess"}, display_name : {"New"}]

\* Faulty variant: the new account is an admin
RegisterAdmin(data) ==
    /\ Idle
    /\ UNCHANGED <<threads, uploads>>
    /\ IF UsersByEmail(data.email) # {}
       THEN RaiseNoCookie("register", 400)
       ELSE LET new_user == NewUser(data.email, data.password, data.display_name, TRUE)
            IN  /\ Cardinality(users) < MaxUsers
                /\ users' = users \cup {new_user}
                /\ SetCookie(new_user)
                /\ resp' = Response("register", 200, <<new_user>>)
                /\ UNCHANGED <<pets, locations, applications, favorites, clock>>

Register(data) ==
    /\ Idle
    /\ UNCHANGED <<threads, uploads>>
    /\ IF UsersByEmail(data.email) # {}
       THEN RaiseNoCookie("register", 400)
       ELSE LET new_user == NewUser(data.email, data.password, data.display_name, FALSE)
            IN  /\ Cardinality(users) < MaxUsers
                /\ users' = users \cup {new_user}
                /\ SetCookie(new_user)
                /\ resp' = Response("register", 200, <<new_user>>)
                /\ UNCHANGED <<pets, locations, applications, favorites, clock>>

\* the userinfo of the token: none, or an email with a name
GoogleUserInfos == {[email |-> NULL, name |-> NULL], [email |-> NEW_EMAIL, name |-> "New"]}

\* every failure is caught and answered by the redirect to the login page;
\* an unknown email gets an account with a random password
GoogleCallback(user_info) ==
    /\ Idle
    /\ UNCHANGED <<threads, uploads>>
    /\ IF user_info.email = NULL
       THEN RaiseNoCookie("google_callback", 307)
       ELSE IF UsersByEmail(user_info.email) # {}
       THEN /\ SetCookie(CurrentUser(user_info.email))
            /\ resp' = Response("google_callback", 307, <<CurrentUser(user_info.email)>>)
            /\ UNCHANGED <<users, pets, locations, applications, favorites, clock>>
       ELSE LET user == NewUser(user_info.email, "token_urlsafe", user_info.name, FALSE)
            IN  /\ Cardinality(users) < MaxUsers
                /\ users' = users \cup {user}
                /\ SetCookie(user)
                /\ resp' = Response("google_callback", 307, <<user>>)
                /\ UNCHANGED <<pets, locations, applications, favorites, clock>>

\* ids used in /users/{user_id}: the regular user, the id a new account gets
\* after seeding, and an id beyond
UserPathIds == {2, 4, MaxUsers + 2}

RECURSIVE UsersByRowid(_)
\* db.query(User).all()
UsersByRowid(S) ==
    IF S = {} THEN <<>>
    ELSE LET u == CHOOSE x \in S : \A y \in S : x.user_id <= y.user_id
         IN  <<u>> \o UsersByRowid(S \ {u})

ListUsers(cookie) ==
    /\ Idle
    /\ UNCHANGED <<threads, issued, uploads>>
    /\ IF ~Authenticated(cookie)
       THEN Raise("list_users", 401)
       ELSE IF ~CurrentUser(cookie).is_admin
       THEN Raise("list_users", 403)
       ELSE /\ resp' = Response("list_users", 200, UsersByRowid(users))
            /\ UNCHANGED <<users, pets, locations, applications, favorites, clock>>

GetUser(cookie, user_id) ==
    /\ Idle
    /\ UNCHANGED <<threads, issued, uploads>>
    /\ IF ~Authenticated(cookie)
       THEN Raise("get_user", 401)
       ELSE IF ~MayManageUser(CurrentUser(cookie), user_id)
       THEN Raise("get_user", 403)
       ELSE IF {u \in users : u.user_id = user_id} = {}
       THEN Raise("get_user", 404)
       ELSE /\ resp' = Response("get_user", 200,
                              <<CHOOSE u \in users : u.user_id = user_id>>)
            /\ UNCHANGED <<users, pets, locations, applications, favorites, clock>>

\* UserUpdate bodies, each field optional: a new name alone; every field,
\* with the admin's email; a new email alone
UserUpdates ==
    { [display_name |-> "Renamed", email |-> NULL, password |-> NULL],
      [display_name |-> "Renamed", email |-> ADMIN_EMAIL, password |-> "guess"],
      [display_name |-> NULL, email |-> NEW_EMAIL, password |-> NULL] }

\* Faulty variant: the display name is committed before the email is checked
UpdatedUserCommitsName(user, user_data) ==
    LET named == IF user_data.display_name # NULL
                 THEN [user EXCEPT !.display_name = user_data.display_name]
                 ELSE user
        taken == /\ user_data.email # NULL
                 /\ \E o \in users :
                       o.email = user_data.email /\ o.user_id # user.user_id
        mailed == IF user_data.email # NULL
                  THEN [named EXCEPT !.email = user_data.email]
                  ELSE named
        hashed == IF user_data.password # NULL
                  THEN [mailed EXCEPT
                           !.password_hash = hash_password(user_data.password)]
                  ELSE mailed
    IN  IF taken THEN [code |-> 400, stored |-> named]
                 ELSE [code |-> 200, stored |-> hashed]

\* Faulty variant: the email is not compared with the other users' emails
UpdatedUserNoEmailCheck(user, user_data) ==
    LET named == IF user_data.display_name # NULL
                 THEN [user EXCEPT !.display_name = user_data.display_name]
                 ELSE user
        mailed == IF user_data.email # NULL
                  THEN [named EXCEPT !.email = user_data.email]
                  ELSE named
        hashed == IF user_data.password # NULL
                  THEN [mailed EXCEPT
                           !.password_hash = hash_password(user_data.password)]
                  ELSE mailed
    IN  [code |-> 200, stored |-> hashed]

\* "Update only the fields that were provided": the fields are set on the
\* row object of the request's Session, one after the other, and written by
\* db.commit(); the HTTPException of the email check leaves the handler
\* before the commit and get_db closes the Session, which drops the edits
UpdatedUser(user, user_data) ==
    LET named == IF user_data.display_name # NULL
                 THEN [user EXCEPT !.display_name = user_data.display_name]
                 ELSE user
        taken == /\ user_data.email # NULL
                 /\ \E o \in users :
                       o.email = user_data.email /\ o.user_id # user.user_id
        mailed == IF user_data.email # NULL
                  THEN [named EXCEPT !.email = user_data.email]
                  ELSE named
        hashed == IF user_data.password # NULL
                  THEN [mailed EXCEPT
                           !.password_hash = hash_password(user_data.password)]
                  ELSE mailed
    IN  IF taken THEN [code |-> 400, stored |-> user]
                 ELSE [code |-> 200, stored |-> hashed]

UpdateUser(cookie, user_id, user_data) ==
    /\ Idle
    /\ UNCHANGED <<threads, issued, uploads>>
    /\ IF ~Authenticated(cookie)
       THEN Raise("update_user", 401)
       ELSE IF ~MayManageUser(CurrentUser(cookie), user_id)
       THEN Raise("update_user", 403)
       ELSE IF {u \in users : u.user_id = user_id} = {}
       THEN Raise("update_user", 404)
       ELSE LET user == CHOOSE u \in users : u.user_id = user_id
                result == UpdatedUser(user, user_data)
            IN  /\ users' = (users \ {user}) \cup {result.stored}
                /\ resp' = Response("update_user", result.code,
                                    IF result.code = 200
                                    THEN <<result.stored>> ELSE <<>>)
                /\ UNCHANGED <<pets, locations, applications, favorites, clock>>

\* UserCreate bodies
UserCreates ==
    [email : {REGULAR_EMAIL, NEW_EMAIL}, password : {"guess"},
     display_name : {"New"}, is_admin : BOOLEAN]

CreateUser(cookie, user_data) ==
    /\ Idle
    /\ UNCHANGED <<threads, issued, uploads>>
    /\ IF ~Authenticated(cookie)
       THEN Raise("create_user", 401)
       ELSE IF ~CurrentUser(cookie).is_admin
       THEN Raise("create_user", 403)
       ELSE IF UsersByEmail(user_data.email) # {}
       THEN Raise("create_user", 400)
       ELSE LET new_user == NewUser(user_data.email, user_data.password,
                                    user_data.display_name, user_data.is_admin)
            IN  /\ Cardinality(users) < MaxUsers
                /\ users' = users \cup {new_user}
                /\ resp' = Response("create_user", 200, <<new_user>>)
                /\ UNCHANGED <<pets, locations, applications, favorites, clock>>

-----------------------------------------------------------------------------
(* POST /locations *)

\* create_location takes the payload and the Session only: the request's
\* cookie is not read
CreateLocation(cookie) ==
    /\ Idle
    /\ UNCHANGED <<threads, issued, uploads>>
    /\ Cardinality(locations) < MaxLocations
    /\ locations' = locations \cup {NextId(locations)}
    /\ resp' = Response("create_location", 200, <<NextId(locations)>>)
    /\ UNCHANGED <<users, pets, applications, favorites, clock>>

-----------------------------------------------------------------------------
(* services/files_service.py *)

\* A file name is a sequence of pieces, each piece a run of characters that
\* the function treats as a unit: <<"a", " ", "b", ".JPG">> is "a b.JPG".  No
\* piece is a concatenation of other pieces, so two names are the same string
\* exactly when they are the same sequence.  Names hold no path separator.
ALLOWED_EXT == {".jpg", ".jpeg", ".png"}
ExtPieces == {".jpg", ".JPG", ".png", ".gif"}

\* str.lower() on an extension
Lower(ext) == IF ext = ".JPG" THEN ".jpg" ELSE ext

\* os.path.splitext: the extension starts at the last dot, unless that dot
\* leads the name
SplitExt(filename) ==
    IF Len(filename) > 1 /\ filename[Len(filename)] \in ExtPieces
    THEN [name |-> SubSeq(filename, 1, Len(filename) - 1),
          ext  |-> filename[Len(filename)]]
    ELSE [name |-> filename, ext |-> ""]

\* name.replace(" ", "_")
ReplaceSpaces(name) ==
    [k \in 1..Len(name) |-> IF name[k] = " " THEN "_" ELSE name[k]]

\* str(i) of the suffix counter
Str(i) == <<"1", "2", "3", "4", "5", "6", "7", "8", "9">>[i]

\* the directory: one record per file
FileNames(dir) == {file.filename : file \in dir}
Exists(dir, path) == path \in FileNames(dir)

\* open(path, "wb") followed by the writes: creates the file or truncates
\* the one already there
WriteFile(dir, path, content) ==
    {file \in dir : file.filename # path}
        \cup {[filename |-> path, content |-> content]}

\* os.remove(path)
RemoveFile(dir, path) == {file \in dir : file.filename # path}

RECURSIVE Deduplicate(_, _, _, _, _)
\* while os.path.exists(final): final = f"{name}_{i}{ext}"; i += 1
Deduplicate(dir, name, ext, final, i) ==
    IF Exists(dir, final)
    THEN Deduplicate(dir, name, ext, name \o <<"_", Str(i), ext>>, i + 1)
    ELSE final

\* the limit of the docstring's example call
MAX_UPLOAD_BYTES == 2 * 1024 * 1024

\* uploaded files: a name, the bytes and their number
UploadNames ==
    { <<"a", ".jpg">>, <<"a", ".JPG">>, <<"a", " ", "b", ".jpg">>,
      <<"tmp", "_", "a", ".jpg">>, <<"a", "_", "1", ".jpg">>,
      <<"a", ".gif">>, <<".jpg">> }
UploadData ==
    { [bytes |-> "photo1", size |-> 1],
      [bytes |-> "photo2", size |-> MAX_UPLOAD_BYTES],
      [bytes |-> "photo3", size |-> MAX_UPLOAD_BYTES + 1] }

\* save_image_or_error(f, upload_dir, max_bytes); its result is the response
SaveImageOrError(filename, data, max_bytes) ==
    /\ Idle
    /\ UNCHANGED <<users, pets, locations, applications, favorites, clock,
                   threads, issued>>
    /\ LET split == SplitExt(filename)
           name  == split.name
           ext   == Lower(split.ext)
           tmp   == <<"tmp", "_">> \o filename
       IN  IF ext \notin ALLOWED_EXT
           THEN /\ resp' = Response("save_image_or_error", 400, <<>>)
                /\ UNCHANGED uploads
           ELSE IF data.size > max_bytes
           THEN /\ resp' = Response("save_image_or_error", 400, <<>>)
                /\ uploads' = RemoveFile(WriteFile(uploads, tmp, "partial"), tmp)
           ELSE LET written == WriteFile(uploads, tmp, data.bytes)
                    final == Deduplicate(written, name, ext,
                                         ReplaceSpaces(name) \o <<ext>>, 1)
                IN  /\ Cardinality(uploads) < MaxFiles
                    /\ uploads' = WriteFile(RemoveFile(written, tmp),
                                            final, data.bytes)
                    /\ resp' = Response("save_image_or_error", 200,
                                        <<<<"uploads/">> \o final>>)

\* requests do not overlap: one is handled, its response is sent, and only
\* then the next one is taken
Reply ==
    /\ ~Idle
    /\ UNCHANGED <<threads, issued, uploads>>
    /\ resp' = NoResponse
    /\ UNCHANGED <<users, pets, locations, applications, favorites, clock>>

Next ==
    \/ SeedDatabase
    \/ \E cookie \in Cookies, body \in CreateBodies : CreateApplication(cookie, body)
    \/ \E cookie \in Cookies, status \in StatusFilters : ListApplications(cookie, status)
    \/ \E cookie \in Cookies : GetApplicationStats(cookie)
    \/ \E cookie \in Cookies, id \in AppIdInputs : GetApplication(cookie, id)
    \/ \E cookie \in Cookies, id \in PatchIdInputs, data \in UpdateBodies :
          UpdateApplication(cookie, id, data)
    \/ \E cookie \in Cookies, id \in AppIdInputs : DeleteApplication(cookie, id)
    \/ \E cookie \in Cookies, id \in UserIdInputs : DeleteUser(cookie, id)
    \/ \E key \in AdminKeys : ResetDb(key)
    \/ Reply

Spec == Init /\ [][Next]_vars

\* the favorites requests, one at a time, on the seeded and on the reset database
FavNext ==
    \/ SeedDatabase
    \/ \E cookie \in Cookies, pet_id \in FavPetInputs : AddFavorite(cookie, pet_id)
    \/ \E cookie \in Cookies, pet_id \in FavPetInputs : RemoveFavorite(cookie, pet_id)
    \/ \E cookie \in Cookies, pet_id \in FavPetInputs : CheckFavorite(cookie, pet_id)
    \/ \E cookie \in Cookies : ListFavorites(cookie)
    \/ \E cookie \in Cookies : ListFavoriteIds(cookie)
    \/ \E key \in AdminKeys : ResetDb(key)
    \/ Reply

FavSpec == Init /\ [][FavNext]_vars

\* the account requests, one at a time
UserCookies == {NULL, ADMIN_EMAIL, REGULAR_EMAIL, NEW_EMAIL}

UserNext ==
    \/ SeedDatabase
    \/ \E data \in LoginRequests : Login(data)
    \/ \E data \in RegisterRequests : Register(data)
    \/ \E user_info \in GoogleUserInfos : GoogleCallback(user_info)
    \/ \E cookie \in UserCookies : ListUsers(cookie)
    \/ \E cookie \in UserCookies, id \in UserPathIds : GetUser(cookie, id)
    \/ \E cookie \in UserCookies, id \in UserPathIds, data \in UserUpdates :
          UpdateUser(cookie, id, data)
    \/ \E cookie \in UserCookies, id \in UserPathIds : DeleteUser(cookie, id)
    \/ \E cookie \in UserCookies, data \in UserCreates : CreateUser(cookie, data)
    \/ \E cookie \in UserCookies : CreateLocation(cookie)
    \/ Reply

UserSpec == Init /\ [][UserNext]_vars

\* the two ordered listings next to the requests that add and remove their rows
ListCookies == {NULL, ADMIN_EMAIL, REGULAR_EMAIL}

ListNext ==
    \/ SeedDatabase
    \/ \E cookie \in ListCookies, body \in CreateBodies : CreateApplication(cookie, body)
    \/ \E cookie \in ListCookies, id \in AppIdInputs : DeleteApplication(cookie, id)
    \/ \E cookie \in ListCookies, status \in StatusFilters : ListApplications(cookie, status)
    \/ \E cookie \in ListCookies, pet_id \in FavPetInputs : AddFavorite(cookie, pet_id)
    \/ \E cookie \in ListCookies, pet_id \in FavPetInputs : RemoveFavorite(cookie, pet_id)
    \/ \E cookie \in ListCookies : ListFavorites(cookie)
    \/ Reply

ListSpec == Init /\ [][ListNext]_vars

\* uploads stored one after the other
FileNext ==
    \/ \E filename \in UploadNames, data \in UploadData :
          SaveImageOrError(filename, data, MAX_UPLOAD_BYTES)
    \/ Reply

FileSpec == Init /\ [][FileNext]_vars

-----------------------------------------------------------------------------
(* Overlapping requests.  Each handler is cut at its database statements: a *)
(* SELECT reads the committed rows (the sqlite3 driver opens no transaction *)
(* for a SELECT), and db.add + db.commit is one INSERT transaction.  Nothing *)
(* is locked between the statements of a request.                            *)

\* sessions and pets of the overlapping requests: no cookie or the regular
\* user; Charlie (no seeded application or favorite) or an id no pet has
RaceCookies == {NULL, REGULAR_EMAIL}
RacePetInputs == {4, 9}

At(w, op, pc) == threads[w].op = op /\ threads[w].pc = pc

\* the thread moves on to its next statement
Goto(w, pc) == threads' = [threads EXCEPT ![w].pc = pc]

\* the thread's handler returns or raises: its answer is ready
Answer(w, code, body) ==
    threads' = [threads EXCEPT ![w].pc = "done", ![w].code = code, ![w].body = body]

\* get_current_user at the head of a handler: 401, or the user row is loaded
Begin(w, op, cookie, pet_id) ==
    /\ Idle
    /\ threads[w] = IdleThread
    /\ threads' = [threads EXCEPT ![w] =
          IF Authenticated(cookie)
          THEN Thread(op, "pet", CurrentUser(cookie), pet_id, 0, <<>>)
          ELSE Thread(op, "done", NoUser, pet_id, 401, <<>>)]
    /\ UNCHANGED <<users, pets, locations, applications, favorites, clock, resp, issued, uploads>>

CreateBegin(w, cookie, pet_id) ==
    /\ Begin(w, "create_application", cookie, pet_id)

\* "Check if pet exists"
CreatePetLookup(w) ==
    /\ At(w, "create_application", "pet")
    /\ IF PetFound(threads[w].pet_id) THEN Goto(w, "lookup") ELSE Answer(w, 404, <<>>)
    /\ UNCHANGED <<users, pets, locations, applications, favorites, clock, resp, issued, uploads>>

\* "Check if user already has pending application for this pet"
CreatePendingLookup(w) ==
    /\ At(w, "create_application", "lookup")
    /\ IF ExistingPending(threads[w].user.user_id, threads[w].pet_id) # {}
       THEN Answer(w, 400, <<>>)
       ELSE Goto(w, "insert")
    /\ UNCHANGED <<users, pets, locations, applications, favorites, clock, resp, issued, uploads>>

\* Faulty variant: the INSERT repeats the pending lookup in its transaction
CreateInsertRechecks(w) ==
    /\ At(w, "create_application", "insert")
    /\ Cardinality(applications) < MaxRaceApps
    /\ clock < MaxRaceClock
    /\ IF ExistingPending(threads[w].user.user_id, threads[w].pet_id) # {}
       THEN /\ Answer(w, 400, <<>>)
            /\ UNCHANGED <<applications, clock>>
       ELSE LET application ==
                  NewApplication(threads[w].user, [pet_id |-> threads[w].pet_id],
                                 NextId(AppIds), clock + 1)
            IN  /\ applications' = applications \cup {application}
                /\ Answer(w, 200, <<application>>)
                /\ clock' = clock + 1
    /\ UNCHANGED <<users, pets, locations, favorites, resp, issued, uploads>>

\* db.add(application); db.commit(); db.refresh(application)
CreateInsert(w) ==
    /\ At(w, "create_application", "insert")
    /\ Cardinality(applications) < MaxRaceApps
    /\ clock < MaxRaceClock
    /\ LET application ==
             NewApplication(threads[w].user, [pet_id |-> threads[w].pet_id],
                            NextId(AppIds), clock + 1)
       IN  /\ applications' = applications \cup {application}
           /\ Answer(w, 200, <<application>>)
    /\ clock' = clock + 1
    /\ UNCHANGED <<users, pets, locations, favorites, resp, issued, uploads>>

AddBegin(w, cookie, pet_id) ==
    /\ Begin(w, "add_favorite", cookie, pet_id)

\* "Check if pet exists"
AddPetLookup(w) ==
    /\ At(w, "add_favorite", "pet")
    /\ IF PetFound(threads[w].pet_id) THEN Goto(w, "lookup") ELSE Answer(w, 404, <<>>)
    /\ UNCHANGED <<users, pets, locations, applications, favorites, clock, resp, issued, uploads>>

\* "Check if already favorited"
AddExistingLookup(w) ==
    /\ At(w, "add_favorite", "lookup")
    /\ IF FavoritesOf(threads[w].user.user_id, threads[w].pet_id) # {}
       THEN Answer(w, 400, <<>>)
       ELSE Goto(w, "insert")
    /\ UNCHANGED <<users, pets, locations, applications, favorites, clock, resp, issued, uploads>>

\* db.add(favorite); db.commit()
AddInsert(w) ==
    /\ At(w, "add_favorite", "insert")
    /\ Cardinality(favorites) < MaxRaceFavs
    /\ clock < MaxRaceClock
    /\ favorites' = favorites \cup
          {NewFavorite(threads[w].user, threads[w].pet_id, NextId(FavIds), clock + 1)}
    /\ Answer(w, 200, <<>>)
    /\ clock' = clock + 1
    /\ UNCHANGED <<users, pets, locations, applications, resp, issued, uploads>>

\* list_favorite_ids has no path parameter and no pet lookup
ListIdsBegin(w, cookie) ==
    /\ Begin(w, "list_favorite_ids", cookie, 0)

\* "Query favorite pet IDs" and "Extract IDs from tuples"
ListIdsSelect(w) ==
    /\ At(w, "list_favorite_ids", "pet")
    /\ Answer(w, 200, PetIdsByRowid({f \in favorites :
                                        f.user_id = threads[w].user.user_id}))
    /\ UNCHANGED <<users, pets, locations, applications, favorites, clock, resp, issued, uploads>>

\* the answer is sent and the thread goes back to the pool
Return(w) ==
    /\ threads[w].pc = "done"
    /\ threads' = [threads EXCEPT ![w] = IdleThread]
    /\ UNCHANGED <<users, pets, locations, applications, favorites, clock, resp, issued, uploads>>

RaceNext ==
    \/ SeedDatabase
    \/ \E w \in Workers, cookie \in RaceCookies, pet_id \in RacePetInputs :
          CreateBegin(w, cookie, pet_id)
    \/ \E w \in Workers : CreatePetLookup(w)
    \/ \E w \in Workers : CreatePendingLookup(w)
    \/ \E w \in Workers : CreateInsert(w)
    \/ \E w \in Workers, cookie \in RaceCookies, pet_id \in RacePetInputs :
          AddBegin(w, cookie, pet_id)
    \/ \E w \in Workers : AddPetLookup(w)
    \/ \E w \in Workers : AddExistingLookup(w)
    \/ \E w \in Workers : AddInsert(w)
    \/ \E w \in Workers, cookie \in RaceCookies : ListIdsBegin(w, cookie)
    \/ \E w \in Workers : ListIdsSelect(w)
    \/ \E w \in Workers : Return(w)

RaceSpec == Init /\ [][RaceNext]_vars

-----------------------------------------------------------------------------
(* Properties of the application workflow.  They are stated over the stored *)
(* rows and the request, not through the handlers' own helper operators.    *)

Terminal == {"approved", "rejected"}

\* the users a cookie value identifies (none for an absent cookie)
Callers(cookie) == {u \in users : cookie # NULL /\ u.email = cookie}

PendingOf(user_id, pet_id) ==
    {a \in applications :
        a.user_id = user_id /\ a.pet_id = pet_id /\ a.status = "pending"}

\* C1: there is at most one pending Application per (user_id, pet_id) pair.
AtMostOnePendingPerUserPet ==
    \A a, b \in applications :
        (/\ a.user_id = b.user_id
         /\ a.pet_id = b.pet_id
         /\ a.status = "pending"
         /\ b.status = "pending") => a = b

DuplicatePendingRejected ==
    [][\A cookie \in Cookies, body \in CreateBodies :
          (/\ CreateApplication(cookie, body)
           /\ body.pet_id \in pets
           /\ \E u \in Callers(cookie) : PendingOf(u.user_id, body.pet_id) # {})
              => (resp'.code = 400 /\ applications' = applications)]_vars

\* C3 witness: a POST was answered 400 while a pending Application for an
\* existing requested pet is stored.
DuplicatePendingSeen ==
    /\ resp.op = "create_application"
    /\ resp.code = 400
    /\ \E a \in applications :
          a.status = "pending" /\ a.pet_id \in pets /\ a.pet_id \in PetIdInputs

\* C4: when the caller's Applications for an existing pet are all approved or
\* rejected (at least one exists, none is pending), POST /applications is
\* answered 200 and adds a pending Application for that caller and pet, the
\* historical ones staying stored.
ResubmitAfterReview ==
    [][\A cookie \in Cookies, body \in CreateBodies :
          \A u \in Callers(cookie) :
             (/\ CreateApplication(cookie, body)
              /\ body.pet_id \in pets
              /\ PendingOf(u.user_id, body.pet_id) = {}
              /\ \E h \in applications :
                    /\ h.user_id = u.user_id
                    /\ h.pet_id = body.pet_id
                    /\ h.status \in Terminal)
                 => /\ resp'.code = 200
                    /\ applications \subseteq applications'
                    /\ \E n \in applications' \ applications :
                          /\ n.user_id = u.user_id
                          /\ n.pet_id = body.pet_id
                          /\ n.status = "pending"]_vars

\* C4 witness: a POST answered 200 created an Application after a PATCH had
\* reviewed an earlier Application of the same user for the same pet.
ResubmittedAfterPatch ==
    /\ resp.op = "create_application"
    /\ resp.code = 200
    /\ resp.body[1] \in applications
    /\ \E h \in applications :
          /\ h.user_id = resp.body[1].user_id
          /\ h.pet_id = resp.body[1].pet_id
          /\ h.status \in Terminal
          /\ h.reviewed_at # NullTime
          /\ h.reviewed_at < resp.body[1].application_date

\* C5: a POST /applications answered 200 adds exactly one Application: owned
\* by the caller, for the requested pet, pending, with no review timestamp and
\* no admin notes, whatever other keys the body carries.
CreatedApplicationShape ==
    [][\A cookie \in Cookies, body \in CreateBodies :
          (CreateApplication(cookie, body) /\ resp'.code = 200)
              => \E n \in applications' :
                    /\ n.application_id \notin AppIds
                    /\ applications' = applications \cup {n}
                    /\ \E u \in Callers(cookie) : n.user_id = u.user_id
                    /\ n.pet_id = body.pet_id
                    /\ n.status = "pending"
                    /\ n.reviewed_at = NullTime
                    /\ n.admin_notes = NULL]_vars

\* C5 witness: the regular user's POST for Luna, whose body also carried
\* status "approved" and user_id 3, was answered 200.
CreatedDespiteExtraKeys ==
    /\ resp.op = "create_application"
    /\ resp.code = 200
    /\ resp.body[1].pet_id = 2
    /\ resp.body[1].user_id = 2

\* C6: POST /applications is answered 401 without a valid session; with a
\* valid session and a pet_id no pet has it is answered 404; and a POST that
\* is not answered 200 stores nothing.
CreateChecksInOrder ==
    [][\A cookie \in Cookies, body \in CreateBodies :
          CreateApplication(cookie, body)
              => /\ Callers(cookie) = {} => resp'.code = 401
                 /\ (Callers(cookie) # {} /\ body.pet_id \notin pets)
                        => resp'.code = 404
                 /\ resp'.code # 200 => applications' = applications]_vars

\* C6 witness: a POST was answered 404 while pending Applications carrying
\* the requested pet ids are stored although those pets are gone.
CreateForMissingPetRejected ==
    /\ resp.op = "create_application"
    /\ resp.code = 404
    /\ \E a \in applications :
          a.status = "pending" /\ a.pet_id \in PetIdInputs /\ a.pet_id \notin pets

\* the rows a list response carries
Returned(r) == {r.body[i] : i \in 1..Len(r.body)}

\* C7: GET /applications returns to a non-admin only Applications with the
\* caller's user_id, for every status filter, and to an admin the Applications
\* of all users that match the filter.
ListScopedByCaller ==
    [][\A cookie \in Cookies, status \in StatusFilters :
          \A u \in Callers(cookie) :
             ListApplications(cookie, status)
                 => IF u.is_admin
                    THEN Returned(resp') =
                            {a \in applications :
                                status \in {NULL, ""} \/ a.status = status}
                    ELSE \A a \in Returned(resp') : a.user_id = u.user_id]_vars

\* the outcome C8 prescribes for a fetch or a delete of one Application
AccessOutcome(cookie, application_id) ==
    LET found == {a \in applications : a.application_id = application_id}
    IN  IF Callers(cookie) = {} THEN 401
        ELSE IF found = {} THEN 404
        ELSE IF \E u \in Callers(cookie), a \in found :
                    ~u.is_admin /\ a.user_id # u.user_id
        THEN 403
        ELSE 200

\* C8: GET and DELETE /applications/{id} answer 401 without a valid session,
\* else 404 if no Application has that id, else 403 if the caller is neither
\* admin nor owner, else 200.
FetchAndDeleteOutcomes ==
    [][\A cookie \in Cookies, id \in AppIdInputs :
          /\ GetApplication(cookie, id) => resp'.code = AccessOutcome(cookie, id)
          /\ DeleteApplication(cookie, id)
                => resp'.code = AccessOutcome(cookie, id)]_vars

\* C9: PATCH /applications/{id} and GET /applications/stats by a non-admin
\* are answered 403, the PATCH changing no Application; and status,
\* reviewed_at or admin_notes of a stored Application change only in a PATCH
\* by an admin.
ReviewFieldsAdminOnly ==
    [][/\ \A cookie \in Cookies :
             \A u \in Callers(cookie) :
                ~u.is_admin =>
                   /\ GetApplicationStats(cookie) => resp'.code = 403
                   /\ \A id \in PatchIdInputs, data \in UpdateBodies :
                         UpdateApplication(cookie, id, data)
                            => (resp'.code = 403 /\ applications' = applications)
       /\ \A a \in applications : \A b \in applications' :
             (/\ a.application_id = b.application_id
              /\ \/ b.status # a.status
                 \/ b.reviewed_at # a.reviewed_at
                 \/ b.admin_notes # a.admin_notes)
                => \E cookie \in Cookies, data \in UpdateBodies :
                      /\ UpdateApplication(cookie, a.application_id, data)
                      /\ \E u \in Callers(cookie) : u.is_admin]_vars

\* C9 witness: a PATCH was answered 403 (the caller is a user, not an admin)
\* while the regular user's pending Application is stored untouched.
NonAdminPatchForbidden ==
    /\ resp.op = "update_application"
    /\ resp.code = 403
    /\ \E a \in applications :
          /\ a.application_id = 1
          /\ a.status = "pending"
          /\ a.reviewed_at = NullTime
          /\ a.admin_notes = NULL

\* C10: an admin's PATCH of a pending Application with status approved or
\* rejected is answered 200, stores that status and a non-null reviewed_at,
\* and stores admin_notes too when the request supplies them.
ReviewSetsStatusAndTimestamp ==
    [][\A cookie \in Cookies, id \in PatchIdInputs, data \in UpdateBodies :
          (/\ UpdateApplication(cookie, id, data)
           /\ \E u \in Callers(cookie) : u.is_admin
           /\ data.status \in Terminal
           /\ \E a \in applications :
                 a.application_id = id /\ a.status = "pending")
              => /\ resp'.code = 200
                 /\ \E b \in applications' :
                       /\ b.application_id = id
                       /\ b.status = data.status
                       /\ b.reviewed_at # NullTime
                       /\ data.admin_notes # NULL
                             => b.admin_notes = data.admin_notes
                 /\ Cardinality(applications') = Cardinality(applications)]_vars

\* C10 witness: a PATCH answered 200 left a rejected Application with a
\* review timestamp and the supplied notes.
ReviewedWithNotes ==
    /\ resp.op = "update_application"
    /\ resp.code = 200
    /\ resp.body[1].status = "rejected"
    /\ resp.body[1].reviewed_at # NullTime
    /\ resp.body[1].admin_notes = "Great match!"
    /\ resp.body[1] \in applications

\* C11: an admin's PATCH /applications/{id} without a status replaces
\* admin_notes when the request supplies them and leaves every other column
\* of the Application, status and reviewed_at included, as it was, whatever
\* the Application's status; with neither field supplied nothing changes.
NotesOnlyPatchKeepsReview ==
    [][\A cookie \in Cookies, id \in PatchIdInputs, data \in UpdateBodies :
          \A a \in applications :
             (/\ data.status = NULL
              /\ a.application_id = id
              /\ \E u \in Callers(cookie) : u.is_admin
              /\ UpdateApplication(cookie, id, data))
                 => /\ resp'.code = 200
                    /\ applications' =
                          (applications \ {a}) \cup
                             {[a EXCEPT !.admin_notes =
                                  IF data.admin_notes = NULL
                                  THEN @ ELSE data.admin_notes]}
                    /\ data.admin_notes = NULL => applications' = applications
                    /\ UNCHANGED <<users, pets, locations, favorites, clock>>]_vars

\* C11 witness: a PATCH answered 200 returned a rejected Application carrying
\* the notes, whose review timestamp is older than the latest clock reading:
\* the PATCH supplied no status.
NotesReplacedAfterReview ==
    /\ resp.op = "update_application"
    /\ resp.code = 200
    /\ resp.body[1].status = "rejected"
    /\ resp.body[1].admin_notes = "Great match!"
    /\ resp.body[1].reviewed_at # NullTime
    /\ resp.body[1].reviewed_at < clock
    /\ resp.body[1] \in applications

\* C12: GET /applications/stats by an admin is answered 200 with, for each of
\* pending, approved and rejected, the number of stored Applications of that
\* status, and a total that is their sum and the number of stored Applications.
StatsCountStoredApplications ==
    [][\A cookie \in Cookies :
          (/\ GetApplicationStats(cookie)
           /\ \E u \in Callers(cookie) : u.is_admin)
              => /\ resp'.code = 200
                 /\ LET r == resp'.body[1] IN
                    /\ r.pending =
                          Cardinality({a \in applications : a.status = "pending"})
                    /\ r.approved =
                          Cardinality({a \in applications : a.status = "approved"})
                    /\ r.rejected =
                          Cardinality({a \in applications : a.status = "rejected"})
                    /\ r.total = r.pending + r.approved + r.rejected
                    /\ r.total = Cardinality(applications)]_vars

\* C12 witness: the statistics were answered with Applications of all three
\* statuses stored, at least one of them without its pet.
StatsOverAllStatuses ==
    /\ resp.op = "get_application_stats"
    /\ resp.code = 200
    /\ resp.body[1].pending >= 1
    /\ resp.body[1].approved >= 1
    /\ resp.body[1].rejected >= 1
    /\ \E a \in applications : a.pet_id \notin pets

\* C13: a DELETE /applications/{id} answered 200 (the caller is the owner or
\* an admin) removes the Application of that id and nothing else: the other
\* Applications, the Favorites, the Pets and the Users stay as they were; a
\* DELETE answered 401, 403 or 404 changes nothing.
DeleteRemovesOnlyTheApplication ==
    [][\A cookie \in Cookies, id \in AppIdInputs :
          DeleteApplication(cookie, id)
             => /\ UNCHANGED <<users, pets, locations, favorites>>
                /\ IF resp'.code = 200
                   THEN /\ \E a \in applications :
                             /\ a.application_id = id
                             /\ applications' = applications \ {a}
                             /\ \E u \in Callers(cookie) :
                                   u.is_admin \/ u.user_id = a.user_id
                        /\ Cardinality(applications') = Cardinality(applications) - 1
                   ELSE /\ resp'.code \in {401, 403, 404}
                        /\ applications' = applications]_vars

\* C13 witness: a DELETE was answered 200 for the regular user's Application
\* for Max while that user's favorite of Max is stored.
DeletedWhileFavoriteStored ==
    /\ resp.op = "delete_application"
    /\ resp.code = 200
    /\ \A a \in applications : a.application_id # 1
    /\ \E f \in favorites : f.user_id = 2 /\ f.pet_id = 1
    /\ \E a \in applications : a.user_id = 2

-----------------------------------------------------------------------------
(* Properties of the favorites requests *)

\* the Favorite rows of one user for one pet
OwnFavorites(S, user_id, pet_id) ==
    {f \in S : f.user_id = user_id /\ f.pet_id = pet_id}

\* C14: for a user and an existing pet, Add is answered 200 and stores the
\* Favorite when the user has none for the pet, and is answered 400 storing
\* nothing when the user has one; Remove is answered 200 and leaves the user
\* without a Favorite for the pet when there was one, and is answered 404
\* changing nothing when there was none.  So Add, Add, Remove, Remove, Add
\* are answered 200, 400, 200, 404, 200.
AddRemoveAlternate ==
    [][\A cookie \in Cookies, pet_id \in FavPetInputs :
          \A u \in Callers(cookie) :
             LET own == OwnFavorites(favorites, u.user_id, pet_id)
                 after == OwnFavorites(favorites', u.user_id, pet_id)
             IN  /\ (pet_id \in pets /\ AddFavorite(cookie, pet_id))
                       => IF own = {}
                          THEN /\ resp'.code = 200
                               /\ Cardinality(after) = 1
                               /\ favorites' \ favorites = after
                               /\ favorites \subseteq favorites'
                          ELSE /\ resp'.code = 400
                               /\ favorites' = favorites
                 /\ RemoveFavorite(cookie, pet_id)
                       => IF own # {}
                          THEN /\ resp'.code = 200
                               /\ after = {}
                               /\ favorites' = favorites \ own
                          ELSE /\ resp'.code = 404
                               /\ favorites' = favorites]_vars

\* C14 witness: an Add was answered 200 for Charlie and the new Favorite got
\* the rowid of a Favorite that had been added and removed before it.
AddedAgainAfterRemove ==
    /\ resp.op = "add_favorite"
    /\ resp.code = 200
    /\ \E f \in favorites :
          /\ f.pet_id = 4
          /\ f.favorite_id = 5
          /\ f.created_at = clock
          /\ f.created_at >= 9

\* C15: there is at most one Favorite per (user_id, pet_id) pair.
AtMostOneFavoritePerUserPet ==
    \A f, g \in favorites :
        (f.user_id = g.user_id /\ f.pet_id = g.pet_id) => f = g

\* C15 witness: an Add was answered 400 while a Favorite added by a request
\* (not by the seed script) is stored.
RepeatedAddRejected ==
    /\ resp.op = "add_favorite"
    /\ resp.code = 400
    /\ \E f \in favorites : f.created_at > 7 /\ f.pet_id \in pets

\* C16: a favorites request by caller A leaves the Favorites of every other
\* user as they were, and its answer is determined by A's own Favorites (and
\* the pets): Check answers whether A has a Favorite for the pet, the lists
\* carry pets of A's Favorites only, Add and Remove are accepted or rejected
\* by A's own Favorites.  Admins are callers like any other.
FavoritesPrivateToOwner ==
    [][\A cookie \in Cookies : \A u \in Callers(cookie) :
          LET others(S) == {f \in S : f.user_id # u.user_id}
              ownPets == {f.pet_id : f \in {g \in favorites : g.user_id = u.user_id}}
          IN  /\ \A pet_id \in FavPetInputs :
                    /\ AddFavorite(cookie, pet_id)
                          => /\ others(favorites') = others(favorites)
                             /\ resp'.code = IF pet_id \notin pets THEN 404
                                             ELSE IF pet_id \in ownPets THEN 400
                                             ELSE 200
                    /\ RemoveFavorite(cookie, pet_id)
                          => /\ others(favorites') = others(favorites)
                             /\ resp'.code = IF pet_id \in ownPets THEN 200 ELSE 404
                    /\ CheckFavorite(cookie, pet_id)
                          => /\ favorites' = favorites
                             /\ resp'.code = 200
                             /\ resp'.body[1].is_favorited = (pet_id \in ownPets)
              /\ ListFavorites(cookie)
                    => /\ favorites' = favorites
                       /\ resp'.code = 200
                       /\ Returned(resp') = ownPets \cap pets
              /\ ListFavoriteIds(cookie)
                    => /\ favorites' = favorites
                       /\ resp'.code = 200
                       /\ Returned(resp') = ownPets]_vars

\* C16 witness: a Check was answered false while the regular user and the
\* admin each have a Favorite for Max and for Charlie.
CheckFalseDespiteOthersFavorites ==
    /\ resp.op = "check_favorite"
    /\ resp.code = 200
    /\ ~resp.body[1].is_favorited
    /\ \A user_id \in {1, 2}, pet_id \in {1, 4} :
          OwnFavorites(favorites, user_id, pet_id) # {}

\* C17 as stated: every GET /favorites/check/{pet_id} is answered with a
\* boolean, never with an error, and changes nothing.
CheckNeverFails ==
    [][\A cookie \in Cookies, pet_id \in FavPetInputs :
          CheckFavorite(cookie, pet_id)
             => /\ resp'.code = 200
                /\ resp'.body[1].is_favorited \in BOOLEAN
                /\ UNCHANGED <<users, pets, locations, applications, favorites>>]_vars

\* C17 as amended: GET /favorites/check/{pet_id} with a valid session is
\* answered 200 with is_favorited true exactly when the caller has a Favorite
\* for pet_id, also for a pet_id no pet has; without a valid session it is
\* answered 401; it changes nothing either way.
CheckFailsOnlyWithoutSession ==
    [][\A cookie \in Cookies, pet_id \in FavPetInputs :
          CheckFavorite(cookie, pet_id)
             => /\ IF Callers(cookie) = {}
                   THEN resp'.code = 401
                   ELSE /\ resp'.code = 200
                        /\ \A u \in Callers(cookie) :
                              resp'.body[1].is_favorited =
                                 (OwnFavorites(favorites, u.user_id, pet_id) # {})
                /\ UNCHANGED <<users, pets, locations, applications, favorites,
                               clock>>]_vars

\* C17 witness: a Check was answered true although no pet exists any more.
CheckedFavoriteOfMissingPet ==
    /\ resp.op = "check_favorite"
    /\ resp.code = 200
    /\ resp.body[1].is_favorited
    /\ pets = {}

-----------------------------------------------------------------------------
(* Properties of overlapping requests and of the stored references *)

\* C18: GET /favorites/list-ids answers exactly the pet ids of the caller's
\* Favorite rows and no pet id twice, however the requests overlap.
ListIdsExactAndDuplicateFree ==
    [][\A w \in Workers :
          ListIdsSelect(w)
             => LET ids == threads'[w].body IN
                /\ threads'[w].code = 200
                /\ {ids[i] : i \in 1..Len(ids)} =
                      {f.pet_id : f \in {g \in favorites :
                                            g.user_id = threads[w].user.user_id}}
                /\ \A i, j \in 1..Len(ids) : ids[i] = ids[j] => i = j]_vars

\* C19: when two POST /applications of one user for one pet have both passed
\* the pending lookup, the INSERT of each is answered 200 and stores a pending
\* Application of that user for that pet; after the second INSERT two such
\* Applications are stored.
RacingCreatesBothSucceed ==
    [][\A w, v \in Workers :
          (/\ w # v
           /\ threads[v].op = "create_application"
           /\ threads[v].user = threads[w].user
           /\ threads[v].pet_id = threads[w].pet_id
           /\ \/ threads[v].pc = "insert"
              \/ threads[v].pc = "done" /\ threads[v].code = 200
           /\ CreateInsert(w))
              => /\ threads'[w].code = 200
                 /\ LET new == threads'[w].body[1] IN
                    /\ new \in applications' \ applications
                    /\ new.user_id = threads[w].user.user_id
                    /\ new.pet_id = threads[w].pet_id
                    /\ new.status = "pending"
                 /\ threads[v].pc = "done"
                       => Cardinality(
                             {a \in applications' :
                                 /\ a.user_id = threads[w].user.user_id
                                 /\ a.pet_id = threads[w].pet_id
                                 /\ a.status = "pending"}) >= 2]_vars

\* C19 witness: two POST /applications of the regular user for Charlie are
\* both answered 200, each with a stored pending Application of its own.
BothRacingCreatesStored ==
    /\ \A w \in Workers :
          /\ threads[w].op = "create_application"
          /\ threads[w].pc = "done"
          /\ threads[w].code = 200
          /\ threads[w].body[1] \in applications
          /\ threads[w].body[1].status = "pending"
          /\ threads[w].body[1].user_id = 2
          /\ threads[w].body[1].pet_id = 4
    /\ threads[1].body[1] # threads[2].body[1]

\* C20: every Application and every Favorite references a User and a Pet
\* that exist.
ReferencesExist ==
    /\ \A a \in applications :
          /\ \E u \in users : u.user_id = a.user_id
          /\ a.pet_id \in pets
    /\ \A f \in favorites :
          /\ \E u \in users : u.user_id = f.user_id
          /\ f.pet_id \in pets

\* C29: an Application's reviewed_at is null exactly when its status is
\* "pending".
ReviewedAtNullIffPending ==
    \A a \in applications : (a.reviewed_at = NullTime) <=> (a.status = "pending")

\* C30: the listing an admin gets without a status filter has as many records
\* as the total of GET /applications/stats in the same state, and an
\* Application that DELETE /applications/{id} finds is returned to an admin
\* by GET /applications/{id}.
AdminListAgreesWithStatsAndFetchWithDelete ==
    [][\A cookie \in Cookies :
          (\E u \in Callers(cookie) : u.is_admin) =>
             /\ (resp'.op = "list_applications" /\ ListApplications(cookie, NULL)) =>
                   /\ resp'.code = 200
                   /\ Len(resp'.body) = StatsResult.total
             /\ \A id \in AppIdInputs :
                   (resp'.op = "get_application" /\ GetApplication(cookie, id)
                       /\ \E a \in applications : a.application_id = id) =>
                      /\ resp'.code = 200
                      /\ resp'.body[1] \in applications
                      /\ resp'.body[1].application_id = id
      ]_vars

-----------------------------------------------------------------------------
(* Properties of the account requests *)

\* C21: a request answered with an error (400, 401, 403, 404) leaves every
\* table as it was; in particular a permitted PUT /users/{id} with a new
\* display_name and an email another user has is answered 400 and leaves the
\* target's display_name, email and password hash as they were.
ErrorsChangeNothing ==
    [][/\ resp'.code \in {400, 401, 403, 404}
             => UNCHANGED <<users, pets, locations, applications, favorites>>
       /\ \A cookie \in UserCookies, id \in UserPathIds, data \in UserUpdates :
             \A caller \in Callers(cookie) : \A target \in users :
                (/\ resp'.op = "update_user"
                 /\ target.user_id = id
                 /\ caller.is_admin \/ caller.user_id = id
                 /\ data.display_name # NULL
                 /\ \E o \in users : o.email = data.email /\ o.user_id # id
                 /\ UpdateUser(cookie, id, data))
                   => /\ resp'.code = 400
                      /\ target \in users'
                      /\ users' = users]_vars

\* C21 witness: a PUT was answered 400 and the regular user's row is the
\* seeded one.
RejectedUpdateKeptRow ==
    /\ resp.op = "update_user"
    /\ resp.code = 400
    /\ \E u \in users :
          /\ u.user_id = 2
          /\ u.display_name = "Regular User"
          /\ u.email = REGULAR_EMAIL
          /\ u.password_hash = hash_password("123456Pw")

\* C22: POST /locations by a caller that is not an authenticated admin
\* creates no Location.
LocationsCreatedByAdminsOnly ==
    [][\A cookie \in UserCookies :
          (/\ ~\E u \in Callers(cookie) : u.is_admin
           /\ CreateLocation(cookie))
              => locations' = locations]_vars

\* C23: no two User rows have the same email; register and create_user with
\* an email some user has are answered 400 and create nothing; update_user to
\* an email another user has is answered 400.
EmailsUnique ==
    [][/\ \A u, v \in users' : u.email = v.email => u = v
       /\ \A data \in RegisterRequests :
             (/\ \E u \in users : u.email = data.email
              /\ resp'.op = "register"
              /\ Register(data))
                => (resp'.code = 400 /\ users' = users)
       /\ \A cookie \in UserCookies, data \in UserCreates :
             (/\ \E u \in Callers(cookie) : u.is_admin
              /\ \E u \in users : u.email = data.email
              /\ resp'.op = "create_user"
              /\ CreateUser(cookie, data))
                => (resp'.code = 400 /\ users' = users)
       /\ \A cookie \in UserCookies, id \in UserPathIds, data \in UserUpdates :
             (/\ resp'.op = "update_user"
              /\ \E c \in Callers(cookie) : c.is_admin \/ c.user_id = id
              /\ \E t \in users : t.user_id = id
              /\ \E o \in users : o.email = data.email /\ o.user_id # id
              /\ UpdateUser(cookie, id, data))
                => resp'.code = 400]_vars

\* C23 witness: a registration was answered 400 while a fourth account is
\* stored and the regular user has moved to the new email.
RegisterOfTakenEmailRejected ==
    /\ resp.op = "register"
    /\ resp.code = 400
    /\ Cardinality(users) = 4
    /\ \E u \in users : u.user_id = 2 /\ u.email = NEW_EMAIL

\* C24: register and the Google callback create accounts with is_admin
\* false; an account with is_admin true is created only by the seed script
\* or by POST /users of an admin; and no request changes is_admin of a user.
AdminsMadeByAdminsOnly ==
    [][/\ \A u \in users : \A v \in users' :
             u.user_id = v.user_id => v.is_admin = u.is_admin
       /\ \A v \in users' :
             (v.user_id \notin UserIds /\ v.is_admin)
                => \/ SeedDatabase
                   \/ \E cookie \in UserCookies, data \in UserCreates :
                         /\ CreateUser(cookie, data)
                         /\ \E u \in Callers(cookie) : u.is_admin
       /\ \A data \in RegisterRequests :
             Register(data) => \A v \in users' \ users : ~v.is_admin
       /\ \A user_info \in GoogleUserInfos :
             GoogleCallback(user_info) => \A v \in users' \ users : ~v.is_admin]_vars

\* C24 witness: a registration was answered 200 with a stored account that
\* is no admin, while an admin made by POST /users is stored too.
RegisteredAccountIsNoAdmin ==
    /\ resp.op = "register"
    /\ resp.code = 200
    /\ resp.body[1] \in users
    /\ ~resp.body[1].is_admin
    /\ \E u \in users : u.is_admin /\ u.user_id # 1

\* C25: GET, PUT and DELETE /users/{user_id} by a non-admin are answered 403
\* without any change unless user_id is the caller's own id (then they are
\* permitted), also when no user has that id; by an admin they are answered
\* 404 when no user has that id and are permitted otherwise; GET /users and
\* POST /users by a non-admin are answered 403.
UsersOwnOrAdmin ==
    [][\A cookie \in UserCookies : \A c \in Callers(cookie) :
          /\ \A id \in UserPathIds :
                (/\ resp'.op \in {"get_user", "delete_user", "update_user"}
                 /\ \/ GetUser(cookie, id)
                    \/ DeleteUser(cookie, id)
                    \/ \E data \in UserUpdates : UpdateUser(cookie, id, data))
                   => IF ~c.is_admin /\ c.user_id # id
                      THEN /\ resp'.code = 403
                           /\ UNCHANGED <<users, applications, favorites>>
                      ELSE IF \A t \in users : t.user_id # id
                      THEN resp'.code = 404 /\ users' = users
                      ELSE resp'.code \notin {401, 403, 404}
          /\ (~c.is_admin /\ resp'.op \in {"list_users", "create_user"})
                => /\ ListUsers(cookie) => resp'.code = 403
                   /\ \A data \in UserCreates :
                         CreateUser(cookie, data)
                            => (resp'.code = 403 /\ users' = users)]_vars

\* C25 witness: a GET /users/{user_id} was answered 403 while only the
\* seeded users are stored: the path id was one no user has.
ForeignIdForbidden ==
    /\ resp.op = "get_user"
    /\ resp.code = 403
    /\ users = SeedUsers

\* C28: a session token handed out to a user authenticates as that user or
\* not at all.
TokenKeepsItsUser ==
    \A t \in issued : \A u \in Callers(t.cookie) : u.user_id = t.user_id

-----------------------------------------------------------------------------
(* Properties of the ordered listings *)

\* C26: GET /applications answers, for every caller and every status filter,
\* with its records newest submission first (a record submitted later, which
\* also has the higher id, never comes after one submitted earlier), and
\* GET /favorites answers with the caller's favorited pets, the one favorited
\* last first.
ListsNewestFirst ==
    [][/\ \A cookie \in ListCookies, status \in StatusFilters :
            (resp'.op = "list_applications" /\ resp'.code = 200
                /\ ListApplications(cookie, status)) =>
               \A i, j \in 1..Len(resp'.body) :
                  i < j => /\ resp'.body[i].application_date
                                > resp'.body[j].application_date
                           /\ resp'.body[i].application_id
                                > resp'.body[j].application_id
       /\ \A cookie \in ListCookies :
            (resp'.op = "list_favorites" /\ resp'.code = 200
                /\ ListFavorites(cookie)) =>
               \A u \in Callers(cookie) :
                  LET own == {f \in favorites : f.user_id = u.user_id} IN
                  /\ Returned(resp') = {f.pet_id : f \in own}
                  /\ \A i, j \in 1..Len(resp'.body) :
                        i < j => \E f, g \in own :
                                    /\ f.pet_id = resp'.body[i]
                                    /\ g.pet_id = resp'.body[j]
                                    /\ f.created_at > g.created_at
      ]_vars

\* an admin's listing has answered with three records or more, one of them
\* submitted after the seeded ones, while the caller of GET /favorites holds
\* favorites whose creation order is not the order of their pet ids
ListedSeveralNewestFirst ==
    /\ resp.op = "list_applications" /\ resp.code = 200
    /\ Len(resp.body) >= 3
    /\ \E i \in 1..Len(resp.body) : resp.body[i].application_date > 7
    /\ \E f, g \in favorites :
          /\ f.user_id = g.user_id
          /\ f.pet_id < g.pet_id /\ f.created_at > g.created_at

-----------------------------------------------------------------------------
(* Properties of the upload directory *)

\* C27: save_image_or_error never destroys or overwrites a file that was in
\* the upload directory before the call: after a successful call every file
\* stored before is still there with its content and the returned path names
\* a file that was not there before; after a rejected call the directory
\* holds exactly the files it held before.
StoredFilesSurvive ==
    [][\A filename \in UploadNames, data \in UploadData :
          SaveImageOrError(filename, data, MAX_UPLOAD_BYTES) =>
             IF resp'.code = 200
             THEN /\ uploads \subseteq uploads'
                  /\ \A file \in uploads :
                        <<"uploads/">> \o file.filename # resp'.body[1]
             ELSE uploads' = uploads
      ]_vars

====
